---------------------------- MODULE Spec2Model ----------------------------
(***************************************************************************)
(* A model of the chip8 class of src/chip8.py: the machine state, reset,   *)
(* load_rom, step (fetch, decode, execute of the 35 instructions) and the  *)
(* pieces of run (key poll, presentation, timer decrement).  Spec takes    *)
(* those operations in any order, as calls on the object; SpecRun takes    *)
(* them in the order of main.py: load_rom, then the loop of run.           *)
(*                                                                         *)
(* Python lists are functions over 0..len-1.  A list access with an index  *)
(* outside -len..len-1 raises IndexError; a negative index in range counts *)
(* from the end.  An exception ends the program: err records it and no     *)
(* further operation runs.                                                 *)
(***************************************************************************)
EXTENDS Integers, Sequences, FiniteSets, TLC

\* ------------------------------------------------------------- constants

RamSize == 4096
StackSize == 48
GfxSize == 2048
NumRegs == 16
LoadOffset == 512
FontOffset == 80
Cols == 64
FlagReg == 15
StepsPerFrame == 10

Byte == 0..255

font_set ==
  << 240, 144, 144, 144, 240,
      32,  96,  32,  32, 112,
     240,  16, 240, 128, 240,
     240,  16, 240,  16, 240,
     144, 144, 240,  16,  16,
     240, 128, 240,  16, 240,
     240, 128, 240, 144, 240,
     240,  16,  32,  64,  64,
     240, 144, 240, 144, 240,
     240, 144, 240,  16, 240,
     240, 144, 240, 144, 144,
     224, 144, 224, 144, 224,
     240, 128, 128, 128, 240,
     224, 144, 144, 144, 224,
     240, 128, 240, 128, 240,
     240, 128, 240, 128, 128 >>

\* ------------------------------------------------------ Python semantics

\* list[i] is defined for -len <= i < len
InRange(len, i) == (-len <= i) /\ (i < len)

\* the cell list[i] names
Idx(len, i) == IF i < 0 THEN len + i ELSE i

NoError == [type |-> "none", args |-> <<>>]
IndexError == [type |-> "IndexError", args |-> <<>>]
\* the ValueError raised without the word
UnknownOpcode_bare(op) == [type |-> "ValueError", args |-> <<>>]

\* ValueError('Unknown opcode ', op): the message is constant, args keeps op
UnknownOpcode(op) == [type |-> "ValueError", args |-> <<op>>]

\* bit i of n (bit 0 the least significant)
Bit(n, i) == (n \div (2 ^ i)) % 2

RECURSIVE BitAnd(_, _)
BitAnd(a, b) ==
  IF a = 0 \/ b = 0 THEN 0
  ELSE (a % 2) * (b % 2) + 2 * BitAnd(a \div 2, b \div 2)

RECURSIVE BitOr(_, _)
BitOr(a, b) ==
  IF a = 0 THEN b
  ELSE IF b = 0 THEN a
  ELSE (IF (a % 2) + (b % 2) > 0 THEN 1 ELSE 0) + 2 * BitOr(a \div 2, b \div 2)

RECURSIVE BitXor(_, _)
BitXor(a, b) ==
  IF a = 0 THEN b
  ELSE IF b = 0 THEN a
  ELSE (((a % 2) + (b % 2)) % 2) + 2 * BitXor(a \div 2, b \div 2)

\* ----------------------------------------------------------------- state

VARIABLES
  I, PC, v, ram, stack, SP, sound_timer, delay_timer, gfx_buffer, draw, key,
  err,      \* the exception that ended the program, or NoError
  waiting,  \* the register FX0A is polling for, or -1 when no step is blocked
  rom,      \* the bytes load_rom copied in since the last reset
  hist,     \* the last steps (at most two), most recent first
  screen,   \* the cells render was last handed (a blank screen at first)
  run_at,   \* where run is: "load", "getKey", "step" or "timers"
  i_run,    \* the step() calls of the current batch made so far (the i
            \* of `for i in range(10)`, plus one once the loop is entered)
  log       \* what run did in the current iteration, in order

machine == <<I, PC, v, ram, stack, SP, sound_timer, delay_timer, gfx_buffer,
             draw, key>>
loop == <<run_at, i_run, log>>
vars == <<machine, err, waiting, rom, hist, screen, loop>>

\* the object's fields and the pending exception, as one value
cur ==
  [ I |-> I, PC |-> PC, v |-> v, ram |-> ram, stack |-> stack, SP |-> SP,
    sound_timer |-> sound_timer, delay_timer |-> delay_timer,
    gfx_buffer |-> gfx_buffer, draw |-> draw, key |-> key,
    err |-> err, waiting |-> waiting, touched |-> {}, located |-> {} ]

Install(s) ==
  /\ I' = s.I
  /\ PC' = s.PC
  /\ v' = s.v
  /\ ram' = s.ram
  /\ stack' = s.stack
  /\ SP' = s.SP
  /\ sound_timer' = s.sound_timer
  /\ delay_timer' = s.delay_timer
  /\ gfx_buffer' = s.gfx_buffer
  /\ draw' = s.draw
  /\ key' = s.key
  /\ err' = s.err
  /\ waiting' = s.waiting

Raise(s, e) == [s EXCEPT !.err = e]

\* s.touched collects the indices handed to self.ram[...] during a step
Touch(s, a) == [s EXCEPT !.touched = @ \cup {a}]

\* s.located collects the indices handed to self.gfx_buffer[...]
Locate(s, p) == [s EXCEPT !.located = @ \cup {p}]

\* ------------------------------------------------- __init__, reset, load

\* the lists __init__ and reset build
ZeroRegs == [r \in 0..(NumRegs - 1) |-> 0]
ZeroRam == [a \in 0..(RamSize - 1) |-> 0]
ZeroStack == [k \in 0..(StackSize - 1) |-> 0]
ZeroGfx == [p \in 0..(GfxSize - 1) |-> 0]

\* the zeroed ram with the font stored from 0x50 on
FontRam ==
  [i \in FontOffset..(FontOffset + Len(font_set) - 1) |->
     font_set[i - FontOffset + 1]] @@ ZeroRam

constructed ==
  [ I |-> 0, PC |-> 0, v |-> ZeroRegs, ram |-> ZeroRam, stack |-> ZeroStack,
    SP |-> 0, sound_timer |-> 0, delay_timer |-> 0, gfx_buffer |-> ZeroGfx,
    draw |-> FALSE, key |-> -1, err |-> NoError, waiting |-> -1,
    touched |-> {}, located |-> {} ]

\* a reset that leaves the stack as it is
reset_keep_stack(s) ==
  [ s EXCEPT
      !.I = 0,
      !.PC = LoadOffset,
      !.v = ZeroRegs,
      !.ram = FontRam,
      !.SP = 0,
      !.sound_timer = 0,
      !.delay_timer = 0,
      !.gfx_buffer = ZeroGfx,
      !.draw = FALSE,
      !.key = -1 ]

reset(s) ==
  [ s EXCEPT
      !.I = 0,
      !.PC = LoadOffset,
      !.v = ZeroRegs,
      !.ram = FontRam,
      !.stack = ZeroStack,
      !.SP = 0,
      !.sound_timer = 0,
      !.delay_timer = 0,
      !.gfx_buffer = ZeroGfx,
      !.draw = FALSE,
      !.key = -1 ]

\* reset, then rom_bytes[i] to ram[0x200 + i] in order; the first i with
\* 0x200 + i outside the list raises IndexError, the earlier bytes stay
load_rom(s, rom_bytes) ==
  LET r == reset(s)
      bad == {i \in 0..(Len(rom_bytes) - 1) : ~InRange(RamSize, LoadOffset + i)}
      done == IF bad = {} THEN Len(rom_bytes)
              ELSE CHOOSE i \in bad : \A j \in bad : i <= j
      s1 == [r EXCEPT !.ram = [a \in LoadOffset..(LoadOffset + done - 1) |->
                                 rom_bytes[a - LoadOffset + 1]] @@ r.ram]
  IN IF bad = {} THEN s1 ELSE Raise(s1, IndexError)

\* ---------------------------------------------------------- instructions

\* n & 0xFF and n & 0xFFFF on Python's unbounded two's-complement integers
Mask8(n) == n % 256
Mask16(n) == n % 65536

__00E0(s) == [s EXCEPT !.gfx_buffer = ZeroGfx]

\* a return that adds 2 to the popped address
__00EE_plus2(s) ==
  IF ~InRange(StackSize, s.SP) THEN Raise(s, IndexError)
  ELSE [s EXCEPT !.PC = s.stack[Idx(StackSize, s.SP)] + 2, !.SP = s.SP - 1]

__00EE(s) ==
  IF ~InRange(StackSize, s.SP) THEN Raise(s, IndexError)
  ELSE [s EXCEPT !.PC = s.stack[Idx(StackSize, s.SP)], !.SP = s.SP - 1]

__1NNN(s, nnn) == [s EXCEPT !.PC = nnn]

__2NNN(s, nnn) ==
  LET s1 == [s EXCEPT !.SP = s.SP + 1]
  IN IF ~InRange(StackSize, s1.SP) THEN Raise(s1, IndexError)
     ELSE [s1 EXCEPT !.stack[Idx(StackSize, s1.SP)] = s1.PC, !.PC = nnn]

__3XKK(s, x, kk) == IF s.v[x] = kk THEN [s EXCEPT !.PC = s.PC + 2] ELSE s

__4XKK(s, x, kk) == IF s.v[x] # kk THEN [s EXCEPT !.PC = s.PC + 2] ELSE s

__5XY0(s, x, y) == IF s.v[x] = s.v[y] THEN [s EXCEPT !.PC = s.PC + 2] ELSE s

__6XKK(s, x, kk) == [s EXCEPT !.v[x] = kk]

\* an add-immediate that reports the carry in VF
__7XKK_carry(s, x, kk) ==
  LET s1 == [s EXCEPT !.v[FlagReg] = IF s.v[x] + kk > 255 THEN 1 ELSE 0]
  IN [s1 EXCEPT !.v[x] = Mask8(s.v[x] + kk)]

__7XKK(s, x, kk) == [s EXCEPT !.v[x] = Mask8(s.v[x] + kk)]

__8XY0(s, x, y) == [s EXCEPT !.v[x] = s.v[y]]

__8XY1(s, x, y) == [s EXCEPT !.v[x] = BitOr(s.v[x], s.v[y])]

__8XY2(s, x, y) == [s EXCEPT !.v[x] = BitAnd(s.v[x], s.v[y])]

__8XY3(s, x, y) == [s EXCEPT !.v[x] = BitXor(s.v[x], s.v[y])]

\* an addition whose carry test is off by one
__8XY4_ge(s, x, y) ==
  LET result == s.v[x] + s.v[y]
      s1 == [s EXCEPT !.v[FlagReg] = IF result >= 255 THEN 1 ELSE 0]
  IN [s1 EXCEPT !.v[x] = Mask8(result)]

\* the flag is stored first and the result second, so with x = 0xF the
\* result overwrites the flag
__8XY4(s, x, y) ==
  LET result == s.v[x] + s.v[y]
      s1 == [s EXCEPT !.v[FlagReg] = IF result > 255 THEN 1 ELSE 0]
  IN [s1 EXCEPT !.v[x] = Mask8(result)]

\* a subtraction whose flag test is not strict
__8XY5_ge(s, x, y) ==
  LET result == s.v[x] - s.v[y]
      s1 == [s EXCEPT !.v[FlagReg] = IF s.v[x] >= s.v[y] THEN 1 ELSE 0]
  IN [s1 EXCEPT !.v[x] = Mask8(result)]

\* flag first, result second, as in __8XY4
__8XY5(s, x, y) ==
  LET result == s.v[x] - s.v[y]
      s1 == [s EXCEPT !.v[FlagReg] = IF s.v[x] > s.v[y] THEN 1 ELSE 0]
  IN [s1 EXCEPT !.v[x] = Mask8(result)]

__8XY6(s, x) ==
  LET s1 == [s EXCEPT !.v[FlagReg] = BitAnd(s.v[x], 1)]
  IN [s1 EXCEPT !.v[x] = s1.v[x] \div 2]

\* a subtraction that stores the difference without the mask
__8XY7_nomask(s, x, y) ==
  LET result == s.v[y] - s.v[x]
      s1 == [s EXCEPT !.v[FlagReg] = IF s.v[y] > s.v[x] THEN 1 ELSE 0]
  IN [s1 EXCEPT !.v[x] = result]

__8XY7(s, x, y) ==
  LET result == s.v[y] - s.v[x]
      s1 == [s EXCEPT !.v[FlagReg] = IF s.v[y] > s.v[x] THEN 1 ELSE 0]
  IN [s1 EXCEPT !.v[x] = Mask8(result)]

\* a left shift that keeps the ninth bit
__8XYE_nomask(s, x) ==
  LET s1 == [s EXCEPT !.v[FlagReg] = BitAnd(s.v[x] \div 128, 1)]
  IN [s1 EXCEPT !.v[x] = s1.v[x] * 2]

\* the flag is stored first and Vx is read again after it, so with
\* x = 0xF it is the flag that is shifted
__8XYE(s, x) ==
  LET s1 == [s EXCEPT !.v[FlagReg] = BitAnd(s.v[x] \div 128, 1)]
  IN [s1 EXCEPT !.v[x] = Mask8(s1.v[x] * 2)]

__9XY0(s, x, y) == IF s.v[x] # s.v[y] THEN [s EXCEPT !.PC = s.PC + 2] ELSE s

__ANNN(s, nnn) == [s EXCEPT !.I = nnn]

__BNNN(s, nnn) == [s EXCEPT !.PC = Mask16(nnn + s.v[0])]

\* rnd is what random.randint(0, 0xFF) returned
__CXKK(s, x, kk, rnd) == [s EXCEPT !.v[x] = BitAnd(rnd, kk)]

\* format(sprite_byte, '08b'): the eight bits, most significant first
Pixels(sprite_byte) == [xi \in 0..7 |-> Bit(sprite_byte, 7 - xi)]

\* a blit that ORs the pixel in
DrawPixel_or(s, vx, vy, yi, xi, pixel) ==
  LET location == ((vy + yi) * Cols) + ((vx + xi) % Cols)
      t == Locate(s, location)
  IN IF ~InRange(GfxSize, location) THEN Raise(t, IndexError)
     ELSE LET loc == Idx(GfxSize, location)
              s1 == IF BitAnd(pixel, t.gfx_buffer[loc]) = 1
                    THEN [t EXCEPT !.v[FlagReg] = 1] ELSE t
          IN [s1 EXCEPT !.gfx_buffer[loc] = BitOr(s1.gfx_buffer[loc], pixel)]

\* one pass of the inner loop body
DrawPixel(s, vx, vy, yi, xi, pixel) ==
  LET location == ((vy + yi) * Cols) + ((vx + xi) % Cols)
      t == Locate(s, location)
  IN IF ~InRange(GfxSize, location) THEN Raise(t, IndexError)
     ELSE LET loc == Idx(GfxSize, location)
              s1 == IF BitAnd(pixel, t.gfx_buffer[loc]) = 1
                    THEN [t EXCEPT !.v[FlagReg] = 1] ELSE t
          IN [s1 EXCEPT !.gfx_buffer[loc] = BitXor(s1.gfx_buffer[loc], pixel)]

RECURSIVE DrawRow(_, _, _, _, _, _)
DrawRow(s, vx, vy, yi, pixels, xi) ==
  IF xi = 8 \/ s.err # NoError THEN s
  ELSE DrawRow(DrawPixel(s, vx, vy, yi, xi, pixels[xi]), vx, vy, yi, pixels,
               xi + 1)

RECURSIVE DrawRows(_, _, _, _, _)
DrawRows(s, vx, vy, n, yi) ==
  IF yi = n \/ s.err # NoError THEN s
  ELSE IF ~InRange(RamSize, s.I + yi)
       THEN Raise(Touch(s, s.I + yi), IndexError)
  ELSE DrawRows(DrawRow(Touch(s, s.I + yi), vx, vy, yi,
                        Pixels(s.ram[Idx(RamSize, s.I + yi)]), 0),
                vx, vy, n, yi + 1)

__DXYN(s, x, y, n) ==
  LET vx == s.v[x]
      vy == s.v[y]
      s1 == [s EXCEPT !.v[FlagReg] = 0, !.draw = TRUE]
  IN DrawRows(s1, vx, vy, n, 0)

__EX9E(s, x) == IF s.v[x] = s.key THEN [s EXCEPT !.PC = s.PC + 2] ELSE s

__EXA1(s, x) == IF s.v[x] # s.key THEN [s EXCEPT !.PC = s.PC + 2] ELSE s

__FX07(s, x) == [s EXCEPT !.v[x] = s.delay_timer]

\* the loop is entered only with key == -1; it then polls until getKey
\* returns a key (FX0A_poll below is one pass of the loop body)
__FX0A(s, x) == IF s.key = -1 THEN [s EXCEPT !.waiting = x] ELSE s

\* a pass that leaves the loop whatever getKey returned
FX0A_poll_any(s, k) ==
  LET s1 == [s EXCEPT !.key = k]
  IN [s1 EXCEPT !.v[s.waiting] = k, !.waiting = -1]

FX0A_poll(s, k) ==
  LET s1 == [s EXCEPT !.key = k]
  IN IF k # -1 THEN [s1 EXCEPT !.v[s.waiting] = k, !.waiting = -1] ELSE s1

__FX15(s, x) == [s EXCEPT !.delay_timer = s.v[x]]

__FX18(s, x) == [s EXCEPT !.sound_timer = s.v[x]]

__FX1E(s, x) == [s EXCEPT !.I = s.I + s.v[x]]

__FX29(s, x) == [s EXCEPT !.I = s.v[x] * 5]

\* the three stores in order; the first out of the list raises
__FX33(s, x) ==
  LET bcd == s.v[x]
      t0 == Touch(s, s.I)
  IN IF ~InRange(RamSize, s.I) THEN Raise(t0, IndexError)
     ELSE LET s1 == [t0 EXCEPT !.ram[Idx(RamSize, s.I)] = (bcd \div 100) % 10]
              t1 == Touch(s1, s.I + 1)
          IN IF ~InRange(RamSize, s.I + 1) THEN Raise(t1, IndexError)
             ELSE LET s2 == [t1 EXCEPT !.ram[Idx(RamSize, s.I + 1)] =
                                         (bcd \div 10) % 10]
                      t2 == Touch(s2, s.I + 2)
                  IN IF ~InRange(RamSize, s.I + 2) THEN Raise(t2, IndexError)
                     ELSE [t2 EXCEPT !.ram[Idx(RamSize, s.I + 2)] = bcd % 10]

RECURSIVE StoreRegs(_, _, _)
StoreRegs(s, x, i) ==
  IF i = x + 1 THEN s
  ELSE IF ~InRange(RamSize, s.I + i) THEN Raise(Touch(s, s.I + i), IndexError)
  ELSE StoreRegs([Touch(s, s.I + i) EXCEPT
                    !.ram[Idx(RamSize, s.I + i)] = s.v[i]], x, i + 1)

__FX55(s, x) == StoreRegs(s, x, 0)

RECURSIVE LoadRegs(_, _, _)
LoadRegs(s, x, i) ==
  IF i = x + 1 THEN s
  ELSE IF ~InRange(RamSize, s.I + i) THEN Raise(Touch(s, s.I + i), IndexError)
  ELSE LoadRegs([Touch(s, s.I + i) EXCEPT
                   !.v[i] = s.ram[Idx(RamSize, s.I + i)]], x, i + 1)

__FX65(s, x) == LoadRegs(s, x, 0)

\* ------------------------------------------------------------------ step

\* the fetch can be made: both list reads are in range
CanFetch(s) == InRange(RamSize, s.PC) /\ InRange(RamSize, s.PC + 1)

\* ram[PC] is read first, ram[PC + 1] only when that read succeeded
FetchTouched(s) ==
  IF InRange(RamSize, s.PC) THEN {s.PC, s.PC + 1} ELSE {s.PC}

\* (ram[PC] << 8) | ram[PC + 1]
Fetch(s) ==
  BitOr(s.ram[Idx(RamSize, s.PC)] * 256, s.ram[Idx(RamSize, s.PC + 1)])

\* the decoded fields
op_code(op) == BitAnd(op, 61440)
op_nnn(op) == BitAnd(op, 4095)
op_kk(op) == BitAnd(op, 255)
op_n(op) == BitAnd(op, 15)
op_x(op) == BitAnd(op, 3840) \div 256
\* a decoder that takes the low nibble for the Y field
op_y_low(op) == BitAnd(op, 15)
op_y(op) == BitAnd(op, 240) \div 16

\* the dispatch of step; s is the state after the fetch
execute(s, op, rnd) ==
  LET c == op_code(op)
  IN IF c = 0 THEN
       IF op = 224 THEN __00E0(s)
       ELSE IF op = 238 THEN __00EE(s)
       ELSE Raise(s, UnknownOpcode(op))
     ELSE IF c = 4096 THEN __1NNN(s, op_nnn(op))
     ELSE IF c = 8192 THEN __2NNN(s, op_nnn(op))
     ELSE IF c = 12288 THEN __3XKK(s, op_x(op), op_kk(op))
     ELSE IF c = 16384 THEN __4XKK(s, op_x(op), op_kk(op))
     ELSE IF c = 20480 THEN __5XY0(s, op_x(op), op_y(op))
     ELSE IF c = 24576 THEN __6XKK(s, op_x(op), op_kk(op))
     ELSE IF c = 28672 THEN __7XKK(s, op_x(op), op_kk(op))
     ELSE IF c = 32768 THEN
       LET sub_op == BitAnd(op, 15)
       IN IF sub_op = 0 THEN __8XY0(s, op_x(op), op_y(op))
          ELSE IF sub_op = 1 THEN __8XY1(s, op_x(op), op_y(op))
          ELSE IF sub_op = 2 THEN __8XY2(s, op_x(op), op_y(op))
          ELSE IF sub_op = 3 THEN __8XY3(s, op_x(op), op_y(op))
          ELSE IF sub_op = 4 THEN __8XY4(s, op_x(op), op_y(op))
          ELSE IF sub_op = 5 THEN __8XY5(s, op_x(op), op_y(op))
          ELSE IF sub_op = 6 THEN __8XY6(s, op_x(op))
          ELSE IF sub_op = 7 THEN __8XY7(s, op_x(op), op_y(op))
          ELSE IF sub_op = 14 THEN __8XYE(s, op_x(op))
          ELSE Raise(s, UnknownOpcode(op))
     ELSE IF c = 36864 THEN __9XY0(s, op_x(op), op_y(op))
     ELSE IF c = 40960 THEN __ANNN(s, op_nnn(op))
     ELSE IF c = 45056 THEN __BNNN(s, op_nnn(op))
     ELSE IF c = 49152 THEN __CXKK(s, op_x(op), op_kk(op), rnd)
     ELSE IF c = 53248 THEN __DXYN(s, op_x(op), op_y(op), op_n(op))
     ELSE IF c = 57344 THEN
       LET sub_op == BitAnd(op, 255)
       IN IF sub_op = 158 THEN __EX9E(s, op_x(op))
          ELSE IF sub_op = 161 THEN __EXA1(s, op_x(op))
          ELSE Raise(s, UnknownOpcode(op))
     ELSE IF c = 61440 THEN
       LET sub_op == BitAnd(op, 255)
       IN IF sub_op = 7 THEN __FX07(s, op_x(op))
          ELSE IF sub_op = 10 THEN __FX0A(s, op_x(op))
          ELSE IF sub_op = 21 THEN __FX15(s, op_x(op))
          ELSE IF sub_op = 24 THEN __FX18(s, op_x(op))
          ELSE IF sub_op = 30 THEN __FX1E(s, op_x(op))
          ELSE IF sub_op = 41 THEN __FX29(s, op_x(op))
          ELSE IF sub_op = 51 THEN __FX33(s, op_x(op))
          ELSE IF sub_op = 85 THEN __FX55(s, op_x(op))
          ELSE IF sub_op = 101 THEN __FX65(s, op_x(op))
          ELSE Raise(s, UnknownOpcode(op))
     ELSE Raise(s, UnknownOpcode(op))

\* one call of step(); rnd is the byte random.randint would return
step(s, rnd) ==
  LET t == [s EXCEPT !.touched = FetchTouched(s), !.located = {}]
  IN IF ~CanFetch(s) THEN Raise(t, IndexError)
     ELSE execute([t EXCEPT !.PC = s.PC + 2], Fetch(s), rnd)

\* ---------------------------------------------------------------- inputs

\* how many of the sample operand values are used, and the largest key polled
NumVals == 4
MaxKey == 0

ValList == <<0, 255, 1, 128, 127, 200, 16>>
Vals == {ValList[i] : i \in 1..(IF NumVals < Len(ValList) THEN NumVals
                                ELSE Len(ValList))}

\* what getKey can return: -1 (no key) or a key of the pad
Keys == (-1)..(IF MaxKey < 15 THEN MaxKey ELSE 15)

\* what random.randint(0, 0xFF) can return
RandomBytes == {0, 165, 255}

\* instruction words
CLS == 224
RET == 238
JP(a) == 4096 + a
CALL(a) == 8192 + a
SE(r, k) == 12288 + 256 * r + k
SNE(r, k) == 16384 + 256 * r + k
LD(r, k) == 24576 + 256 * r + k
ADD(r, k) == 28672 + 256 * r + k
ALU(r, q, sub) == 32768 + 256 * r + 16 * q + sub
LDI(a) == 40960 + a
JP0(a) == 45056 + a
RND(r, k) == 49152 + 256 * r + k
DRW(r, q, rows) == 53248 + 256 * r + 16 * q + rows
EX(r, sub) == 57344 + 256 * r + sub
FX(r, sub) == 61440 + 256 * r + sub

\* the bytes of a sequence of words, big-endian
RECURSIVE Asm(_)
Asm(words) ==
  IF words = <<>> THEN <<>>
  ELSE <<Head(words) \div 256, Head(words) % 256>> \o Asm(Tail(words))

\* bytes, then zeros up to len bytes, then tail
Padded(bytes, len, tail) ==
  bytes \o [i \in 1..(len - Len(bytes) - Len(tail)) |-> 0] \o tail

RegPairs == {<<0, 1>>, <<3, 3>>, <<14, 15>>, <<15, 2>>}

\* words no branch of step recognizes, and recognized neighbours of them
UnknownWords == {0, 225, 239, 291, 4095, 32776, 33215, 34765, 57503, 57760,
                 61440, 61798, 65535}
NeighbourWords == {CLS, ALU(1, 2, 0), ALU(1, 2, 14), EX(1, 158), EX(1, 161),
                   FX(1, 7), FX(1, 101)}

RomsFont == {Asm(<<LD(4, d), FX(4, 41)>>) : d \in 0..15}

RomsKey == {Asm(<<LD(r, 200), FX(r, 10), ADD(r, 1)>>) : r \in {0, 15}}

RomsEdge ==
  { Asm(<<JP(4095)>>), Asm(<<JP(4094)>>),
    Asm(<<LD(0, 255), JP0(4095)>>),
    Asm(<<LD(0, 123), LDI(4094), FX(0, 51)>>),
    Asm(<<LD(0, 255), LDI(4095), FX(0, 30), FX(0, 85)>>),
    Asm(<<LDI(4094), FX(3, 101)>>),
    Asm(<<LDI(4095), DRW(0, 0, 2)>>) }

CallSelf == Asm(<<CALL(512)>>)

\* calls itself until 46 calls are outstanding, then calls a RET in the
\* last slot; with limit 48 the last call finds the stack full
Deep(limit) ==
  Asm(<<ADD(0, 1), SNE(0, limit), JP(522), CALL(512), 0, CALL(526), 0, RET>>)

RomsCall ==
  { Asm(<<RET>>),
    Asm(<<CALL(516), LD(1, 9), RET>>),
    Asm(<<LD(2, 7), CALL(518), CALL(520), RET, RET>>),
    Asm(<<LD(0, 0), LD(1, 238), LDI(0), FX(1, 85), CALL(0)>>),
    Padded(Asm(<<JP(767)>>), 258, <<35, 0, 238>>),
    Padded(Asm(<<CALL(4094)>>), RamSize - LoadOffset, Asm(<<RET>>)),
    Deep(47), Deep(48) }

\* a glyph at (0, 0), then another sprite twice at (a, b) through Vr, Vq
DrawTwice(r, q, a, b, at, rows) ==
  Asm(<<LDI(FontOffset), DRW(5, 5, 5), LD(r, a), LD(q, b), LDI(at),
        DRW(r, q, rows), DRW(r, q, rows)>>)

RomsDraw ==
  { DrawTwice(p[1], p[2], a, b, FontOffset + 5, 5) :
      p \in {<<0, 1>>, <<3, 3>>, <<15, 2>>, <<2, 15>>},
      a \in {0, 2, 61}, b \in {0, 1, 28} }
  \cup { DrawTwice(0, 1, 130, 3, LoadOffset, 15),
         DrawTwice(0, 1, 0, 0, 0, 4),
         DrawTwice(0, 1, 0, 0, FontOffset, 0),
         DrawTwice(0, 1, 1, 17, 4090, 8) }

RomsSize ==
  { Padded(<<>>, RamSize - LoadOffset, <<1>>),
    Padded(<<>>, RamSize - LoadOffset + 1, <<1>>) }

RomsUnknown ==
  {Asm(<<LD(1, 7), w>>) : w \in UnknownWords \cup NeighbourWords}

RomsAlu ==
  { Asm(<<LD(p[1], a), LD(p[2], b), ALU(p[1], p[2], 4)>>) :
      p \in RegPairs, a \in Vals, b \in Vals }

\* 8XY5 and 8XY7 on every register pair and operand pair
RomsSub ==
  { Asm(<<LD(p[1], a), LD(p[2], b), ALU(p[1], p[2], sub)>>) :
      p \in RegPairs, a \in Vals, b \in Vals, sub \in {5, 7} }

\* 8XY6 and 8XYE on a register below VF, and on VF
RomsShift ==
  { Asm(<<LD(r, a), ALU(r, 1, sub)>>) :
      r \in {0, 3, FlagReg}, a \in Vals, sub \in {6, 14} }

\* 7XKK with VF holding 7 before it, on a register below VF and on VF
RomsAddImm ==
  { Asm(<<LD(FlagReg, 7), LD(r, a), ADD(r, k)>>) :
      r \in {0, 14, FlagReg}, a \in Vals, k \in {0, 1, 255} }

\* the two timers set to different values, and the delay timer set to 255
RomsTimer ==
  { Asm(<<LD(1, 2), LD(2, 1), FX(1, 21), FX(2, 24)>>),
    Asm(<<LD(1, 255), FX(1, 21)>>) }

\* LD V0,5; LD V1,3; ADD V0,V1
Scenario == <<96, 5, 97, 3, 128, 20>>

\* a draw, eight more steps to fill the batch of ten, then CLS in the next
\* batch and a jump to itself
RomsPresent ==
  { Asm(<<LDI(FontOffset), DRW(0, 0, 5), LD(1, 1), LD(1, 2), LD(1, 3),
          LD(1, 4), LD(1, 5), LD(1, 6), LD(1, 7), LD(1, 8), CLS, JP(534)>>) }

\* programs that end in a jump to itself, so that run goes on: an
\* await-key and a draw (batches that present and batches that do not),
\* and the two timers set
RomsLoop ==
  { Asm(<<FX(0, 10), LDI(FontOffset), DRW(0, 0, 5), JP(518)>>),
    Asm(<<LD(1, 3), FX(1, 21), LD(2, 1), FX(2, 24), JP(520)>>) }

\* an addition to 255, the two registers stored to memory, the digits of
\* the second written over them and read back into V0..V2
RomsStore ==
  { Asm(<<LD(0, 255), LD(1, a), ALU(0, 1, 4), LDI(768), FX(1, 85),
          FX(1, 51), FX(2, 101)>>) : a \in Vals }

RomsMisc ==
  { Asm(<<RND(0, 15), LD(1, 1), FX(1, 21), FX(1, 24), FX(2, 7), CLS>>) }

Roms ==
  RomsFont \cup RomsKey \cup RomsEdge \cup {CallSelf} \cup RomsCall \cup RomsDraw
  \cup RomsSize \cup RomsUnknown \cup RomsAlu \cup RomsMisc \cup RomsSub
  \cup RomsShift \cup RomsAddImm \cup RomsTimer \cup {Scenario}
  \cup RomsPresent \cup RomsLoop \cup RomsStore

\* --------------------------------------------------------------- actions

Init ==
  /\ I = constructed.I
  /\ PC = constructed.PC
  /\ v = constructed.v
  /\ ram = constructed.ram
  /\ stack = constructed.stack
  /\ SP = constructed.SP
  /\ sound_timer = constructed.sound_timer
  /\ delay_timer = constructed.delay_timer
  /\ gfx_buffer = constructed.gfx_buffer
  /\ draw = constructed.draw
  /\ key = constructed.key
  /\ err = NoError
  /\ waiting = -1
  /\ rom = <<>>
  /\ hist = <<>>
  /\ screen = ZeroGfx
  /\ run_at = "load"
  /\ i_run = 0
  /\ log = <<>>

\* the program runs: no exception has ended it and no step is blocked
Running == err = NoError /\ waiting = -1

\* load_rom(rom_bytes) on the machine as constructed
load_call ==
  /\ Running
  /\ rom = <<>>
  /\ hist = <<>>
  /\ PC = constructed.PC
  /\ \E rom_bytes \in Roms :
       /\ Install(load_rom(cur, rom_bytes))
       /\ rom' = rom_bytes
  /\ hist' = <<>>
  /\ UNCHANGED screen

LoadRom == load_call /\ UNCHANGED loop

\* load_rom again with the bytes last loaded
Reload ==
  /\ Running
  /\ rom # <<>>
  /\ Install(load_rom(cur, rom))
  /\ hist' = <<>>
  /\ UNCHANGED <<rom, screen, loop>>

Reset ==
  /\ Running
  /\ Install(reset(cur))
  /\ rom' = <<>>
  /\ hist' = <<>>
  /\ UNCHANGED <<screen, loop>>

\* What hist keeps of a step: the address and word fetched (-1 when the
\* fetch failed), the small fields before it, the list cells it changed
\* with their values before it, and the ram and gfx_buffer indices it used.
Fields(s) ==
  [ I |-> s.I, PC |-> s.PC, v |-> s.v, stack |-> s.stack, SP |-> s.SP,
    sound_timer |-> s.sound_timer, delay_timer |-> s.delay_timer,
    draw |-> s.draw, key |-> s.key ]

Old(before, after) ==
  IF before = after THEN {}
  ELSE {<<a, before[a]>> : a \in {b \in DOMAIN before : before[b] # after[b]}}

\* the list before a step, from the list after it and the cells it changed
Undo(after, old) ==
  IF old = {} THEN after
  ELSE [a \in DOMAIN after |->
          IF \E o \in old : o[1] = a
          THEN (CHOOSE o \in old : o[1] = a)[2] ELSE after[a]]

\* the instructions that read self.key: EX9E, EXA1 and FX0A
ReadsKey(op) ==
  \/ op_code(op) = 57344
  \/ op_code(op) = 61440 /\ BitAnd(op, 255) = 10

\* the fields before the next step; the key is kept only when the step
\* reads it (-1 otherwise)
PreFields ==
  [Fields(cur) EXCEPT
     !.key = IF CanFetch(cur) /\ ReadsKey(Fetch(cur)) THEN key ELSE -1]

\* the random bytes that matter to the next instruction
Draws(s) ==
  IF CanFetch(s) /\ op_code(Fetch(s)) = 49152 THEN RandomBytes ELSE {0}

step_call ==
  /\ Running
  /\ \E rnd \in Draws(cur) :
       LET s == step(cur, rnd)
           h == [ pc |-> PC,
                  op |-> IF CanFetch(cur) THEN Fetch(cur) ELSE -1,
                  pre |-> PreFields,
                  ram_old |-> Old(ram, s.ram),
                  gfx_old |-> Old(gfx_buffer, s.gfx_buffer),
                  touched |-> s.touched,
                  located |-> s.located ]
       IN /\ Install(s)
          /\ hist' = <<h>> \o (IF hist = <<>> THEN <<>> ELSE <<hist[1]>>)
  /\ UNCHANGED <<rom, screen>>

Step == step_call /\ UNCHANGED loop

\* one pass of the loop of FX0A: poll, and store the key if there is one
poll_pass ==
  /\ err = NoError
  /\ waiting # -1
  /\ \E k \in Keys : Install(FX0A_poll(cur, k) )
  /\ UNCHANGED <<rom, hist, screen>>

Poll == poll_pass /\ UNCHANGED loop

\* self.key = self.getKey()
key_refresh ==
  /\ Running
  /\ \E k \in Keys : key' = k
  /\ UNCHANGED <<I, PC, v, ram, stack, SP, sound_timer, delay_timer,
                 gfx_buffer, draw, err, waiting, rom, hist, screen>>

GetKey == key_refresh /\ UNCHANGED loop

\* if self.draw: render(gfx_buffer); draw = False
present ==
  /\ Running
  /\ draw
  /\ screen' = gfx_buffer
  /\ draw' = FALSE
  /\ UNCHANGED <<I, PC, v, ram, stack, SP, sound_timer, delay_timer,
                 gfx_buffer, key, err, waiting, rom, hist>>

Render == present /\ UNCHANGED loop

\* timer decrements without the test for zero
timers_unclamped ==
  /\ Running
  /\ delay_timer' = delay_timer - 1
  /\ sound_timer' = sound_timer - 1
  /\ UNCHANGED <<I, PC, v, ram, stack, SP, gfx_buffer, draw, key, err,
                 waiting, rom, hist, screen>>

\* the two timer decrements of run
timers ==
  /\ Running
  /\ delay_timer' = IF delay_timer > 0 THEN delay_timer - 1 ELSE delay_timer
  /\ sound_timer' = IF sound_timer > 0 THEN sound_timer - 1 ELSE sound_timer
  /\ UNCHANGED <<I, PC, v, ram, stack, SP, gfx_buffer, draw, key, err,
                 waiting, rom, hist, screen>>

Tick == timers /\ UNCHANGED loop

Next == LoadRom \/ Reload \/ Reset \/ Step \/ Poll \/ GetKey \/ Render \/ Tick

Spec == Init /\ [][Next]_vars

\* ------------------------------------------------------------------- run

\* main.py: load_rom(game_data), then run(): forever, one key refresh, ten
\* steps, the presentation if draw is set, the timer decrements.  log keeps
\* what the current iteration did; the polls of one FX0A are logged once.
Logged(l, e) ==
  IF e = "poll" /\ l # <<>> /\ l[Len(l)] = "poll" THEN l ELSE Append(l, e)

run_load ==
  /\ run_at = "load"
  /\ load_call
  /\ run_at' = "getKey"
  /\ UNCHANGED <<i_run, log>>

run_getKey ==
  /\ run_at = "getKey"
  /\ key_refresh
  /\ run_at' = "step"
  /\ i_run' = 0
  /\ log' = <<"key">>

run_step ==
  /\ run_at = "step"
  /\ i_run < StepsPerFrame
  /\ step_call
  /\ i_run' = i_run + 1
  /\ log' = Logged(log, "step")
  /\ UNCHANGED run_at

\* a pass of the loop of FX0A, inside the step that run called
run_poll ==
  /\ run_at = "step"
  /\ poll_pass
  /\ log' = Logged(log, "poll")
  /\ UNCHANGED <<run_at, i_run>>

\* a presentation after five steps of the batch
run_render_early ==
  /\ run_at = "step"
  /\ i_run = 5
  /\ Running
  /\ IF draw THEN present /\ log' = Logged(log, "render")
     ELSE UNCHANGED <<machine, err, waiting, rom, hist, screen, log>>
  /\ run_at' = "timers"
  /\ UNCHANGED i_run

\* the for loop is over: if self.draw: render(gfx_buffer); draw = False
run_render ==
  /\ run_at = "step"
  /\ i_run = StepsPerFrame
  /\ Running
  /\ IF draw THEN present /\ log' = Logged(log, "render")
     ELSE UNCHANGED <<machine, err, waiting, rom, hist, screen, log>>
  /\ run_at' = "timers"
  /\ UNCHANGED i_run

run_timers ==
  /\ run_at = "timers"
  /\ timers
  /\ run_at' = "getKey"
  /\ log' = Logged(log, "tick")
  /\ UNCHANGED i_run

NextRun ==
  run_load \/ run_getKey \/ run_step \/ run_poll \/ run_render \/ run_timers

SpecRun == Init /\ [][NextRun]_vars

\* getKey reports a key to the loop of FX0A
KeyReported == run_poll /\ key' # -1

\* run with an input source that, polled again and again, reports a key
\* at some poll
FairRun == SpecRun /\ WF_vars(KeyReported)

\* ---------------------------------------------------------------- claims

\* the fields of an instruction word, read off the word itself
FieldX(w) == (w \div 256) % 16
FieldY(w) == (w \div 16) % 16
Family(w) == w \div 4096

\* a step has been made and has returned or raised
Stepped == hist # <<>> /\ waiting = -1
\* the last step returned normally
Returned == Stepped /\ err = NoError

\* the lists as they were before the last step, and before the one before
RamBeforeLast == Undo(ram, hist[1].ram_old)
GfxBeforeLast == Undo(gfx_buffer, hist[1].gfx_old)
RamBeforeTwo == Undo(RamBeforeLast, hist[2].ram_old)
GfxBeforeTwo == Undo(GfxBeforeLast, hist[2].gfx_old)

\* the five bytes of the glyph of digit d
Glyph(d) == [j \in 0..4 |-> font_set[5 * d + j + 1]]

FontIntact ==
  \A a \in FontOffset..(FontOffset + Len(font_set) - 1) :
     ram[a] = font_set[a - FontOffset + 1]

\* C1: after FX29 with a digit d in 0..15 in Vx, and the font as reset
\* installed it, the five bytes at I, I+1, .., I+4 are the glyph of d.
C1_FontDigitAddressed ==
  ( /\ Returned
    /\ Family(hist[1].op) = 15 /\ hist[1].op % 256 = 41
    /\ hist[1].pre.v[FieldX(hist[1].op)] \in 0..15
    /\ FontIntact )
  => \A j \in 0..4 :
       /\ I + j \in 0..(RamSize - 1)
       /\ ram[I + j] = Glyph(hist[1].pre.v[FieldX(hist[1].op)])[j]

\* C2: when FX0A has completed, Vx holds a key 0..15 that was observed
\* pressed: the key recorded at the fetch if there was one, a polled key
\* otherwise.
C2_AwaitKeyStoresKey ==
  ( /\ Returned
    /\ Family(hist[1].op) = 15 /\ hist[1].op % 256 = 10 )
  => /\ v[FieldX(hist[1].op)] \in 0..15
     /\ hist[1].pre.key # -1 => v[FieldX(hist[1].op)] = hist[1].pre.key

\* C3: every index step() hands to the ram list lies in 0..4095.
C3_RamAccessInRange ==
  hist # <<>> => \A a \in hist[1].touched : a \in 0..(RamSize - 1)

\* C4: with [0x22, 0x00] loaded, stepping raises StackOverflow exactly when
\* the call depth exceeds the 48 slots, and up to and at the error the
\* registers, the memory and the framebuffer are as load left them.
C4_CallSelfOverflows ==
  rom = CallSelf =>
    /\ err # NoError => err.type = "StackOverflow"
    /\ (err # NoError) <=> (SP > StackSize)
    /\ v = ZeroRegs
    /\ ram = load_rom(constructed, CallSelf).ram
    /\ gfx_buffer = ZeroGfx

\* C5: a return with no call outstanding (stack pointer at its base) raises
\* StackUnderflow; the stack pointer stays at the base and the program
\* counter is not loaded from the stack.
C5_ReturnOnEmptyStackRaises ==
  ( /\ Stepped
    /\ hist[1].op = RET
    /\ hist[1].pre.SP = 0 )
  => /\ err.type = "StackUnderflow"
     /\ SP >= 0
     /\ PC = hist[1].pc + 2

\* a call, and right after it the return stored at its target
CallThenReturn ==
  /\ Len(hist) = 2
  /\ Returned
  /\ Family(hist[2].op) = 2
  /\ hist[1].op = RET
  /\ hist[1].pc = hist[2].op - 8192

\* C6: a CALL nnn stepped at address p and then the return stored at nnn
\* leave PC = p + 2, the stack pointer as before the call, and registers,
\* memory and framebuffer unchanged.
C6_CallReturnRestores ==
  CallThenReturn =>
    /\ PC = hist[2].pc + 2
    /\ SP = hist[2].pre.SP
    /\ v = hist[2].pre.v
    /\ ram = RamBeforeTwo
    /\ gfx_buffer = GfxBeforeTwo

\* the call went into the last slot of the stack
C6_Witness ==
  /\ CallThenReturn
  /\ hist[2].pre.SP = StackSize - 2
  /\ PC = hist[2].pc + 2

\* the same draw instruction stepped twice in a row, the index register
\* the same at both
SameDrawTwice ==
  /\ Len(hist) = 2
  /\ Returned
  /\ Family(hist[1].op) = 13
  /\ hist[2].op = hist[1].op
  /\ hist[2].pre.I = hist[1].pre.I
  /\ hist[2].ram_old = {}

\* the first of the two draws turned a pixel on
FirstTurnedOn == \E o \in hist[2].gfx_old : o[2] = 0

DrawTwiceRestores ==
  /\ gfx_buffer = GfxBeforeTwo
  /\ FirstTurnedOn => v[FlagReg] = 1

\* C7 as stated: for coordinate registers X, Y in 0..15, the same draw
\* twice in a row restores the framebuffer, and the second draw sets the
\* flag when the first turned a pixel on.
C7_DrawTwiceAnyRegisters == SameDrawTwice => DrawTwiceRestores

\* C7 amended: the same, for coordinate registers X, Y in 0..14 (the
\* first draw overwrites VF, so with X or Y = 15 the second draw is made
\* at other coordinates).
C7_DrawTwiceRestores ==
  ( /\ SameDrawTwice
    /\ FieldX(hist[1].op) # FlagReg
    /\ FieldY(hist[1].op) # FlagReg )
  => DrawTwiceRestores

\* two draws over a framebuffer that was not blank, the first turning
\* pixels on and the second reporting the collision
C7_Witness ==
  /\ SameDrawTwice
  /\ FieldX(hist[1].op) # FlagReg
  /\ FieldY(hist[1].op) # FlagReg
  /\ FirstTurnedOn
  /\ v[FlagReg] = 1
  /\ gfx_buffer # ZeroGfx
  /\ gfx_buffer = GfxBeforeTwo

\* C8: a load of exactly 4096 - 512 bytes succeeds with byte i at 512 + i;
\* a load of one byte more fails with ProgramTooLarge.
C8_LoadSizeLimit ==
  /\ (Len(rom) = RamSize - LoadOffset /\ hist = <<>>) =>
       /\ err = NoError
       /\ \A i \in 0..(Len(rom) - 1) : ram[LoadOffset + i] = rom[i + 1]
  /\ Len(rom) = RamSize - LoadOffset + 1 => err.type = "ProgramTooLarge"

\* the words the claim lists as matching no instruction
Unrecognized(w) ==
  \/ Family(w) = 0 /\ w \notin {224, 238}
  \/ Family(w) = 8 /\ w % 16 \in {8, 9, 10, 11, 12, 13, 15}
  \/ Family(w) = 14 /\ w % 256 \notin {158, 161}
  \/ Family(w) = 15 /\ w % 256 \notin {7, 10, 21, 24, 30, 41, 51, 85, 101}

\* nothing but the program counter differs from before the last step
OnlyPCMoved ==
  /\ I = hist[1].pre.I
  /\ v = hist[1].pre.v
  /\ stack = hist[1].pre.stack
  /\ SP = hist[1].pre.SP
  /\ hist[1].ram_old = {}
  /\ hist[1].gfx_old = {}

AddStepped == Returned /\ Family(hist[1].op) = 8 /\ hist[1].op % 16 = 4

\* a + b for the values Vx and Vy held before the last step
AddSum ==
  hist[1].pre.v[FieldX(hist[1].op)] + hist[1].pre.v[FieldY(hist[1].op)]

\* C10 as stated: for X, Y in 0..15, after 8XY4 VF is 1 if a + b > 255 and
\* 0 otherwise, and Vx is (a + b) mod 256.
C10_AddCarryAnyRegisters ==
  AddStepped =>
    /\ v[FlagReg] = IF AddSum > 255 THEN 1 ELSE 0
    /\ v[FieldX(hist[1].op)] = AddSum % 256

\* C10 amended: that holds for X in 0..14; with X = 15 the sum is stored
\* over the flag, so VF is (a + b) mod 256.
C10_AddCarry ==
  AddStepped =>
    /\ FieldX(hist[1].op) # FlagReg =>
         v[FlagReg] = IF AddSum > 255 THEN 1 ELSE 0
    /\ v[FieldX(hist[1].op)] = AddSum % 256

\* an addition that carries, into a register other than VF
C10_Witness ==
  /\ AddStepped
  /\ FieldX(hist[1].op) # FlagReg
  /\ AddSum > 255
  /\ v[FlagReg] = 1

\* the last step was 8XY5 or 8XY7
SubStepped == Returned /\ Family(hist[1].op) = 8 /\ hist[1].op % 16 \in {5, 7}

\* the minuend a and the subtrahend b held before the last step: Vx and Vy
\* for 8XY5, Vy and Vx for 8XY7
Minuend ==
  IF hist[1].op % 16 = 5 THEN hist[1].pre.v[FieldX(hist[1].op)]
  ELSE hist[1].pre.v[FieldY(hist[1].op)]
Subtrahend ==
  IF hist[1].op % 16 = 5 THEN hist[1].pre.v[FieldY(hist[1].op)]
  ELSE hist[1].pre.v[FieldX(hist[1].op)]

\* C11 as stated: for X, Y in 0..15, after 8XY5 or 8XY7 VF is 1 iff a > b
\* and Vx is (a - b) mod 256.
C11_SubBorrowAnyRegisters ==
  SubStepped =>
    /\ v[FlagReg] = IF Minuend > Subtrahend THEN 1 ELSE 0
    /\ v[FieldX(hist[1].op)] = (Minuend - Subtrahend) % 256

\* C11 amended: that holds for X in 0..14; with X = 15 the difference is
\* stored over the flag, so VF is (a - b) mod 256.
C11_SubBorrow ==
  SubStepped =>
    /\ FieldX(hist[1].op) # FlagReg =>
         v[FlagReg] = IF Minuend > Subtrahend THEN 1 ELSE 0
    /\ v[FieldX(hist[1].op)] = (Minuend - Subtrahend) % 256

\* an 8XY7 whose difference is negative and wraps, into a register other
\* than VF
C11_Witness ==
  /\ SubStepped
  /\ hist[1].op % 16 = 7
  /\ FieldX(hist[1].op) # FlagReg
  /\ Minuend < Subtrahend
  /\ v[FlagReg] = 0
  /\ v[FieldX(hist[1].op)] = 256 + Minuend - Subtrahend

\* the last step was 8XY6 (shift right) or 8XYE (shift left)
ShiftStepped ==
  Returned /\ Family(hist[1].op) = 8 /\ hist[1].op % 16 \in {6, 14}

\* the value p of Vx before the last step, the bit the shift moves out of
\* an 8-bit value q, and q shifted
ShiftPre == hist[1].pre.v[FieldX(hist[1].op)]
ShiftedOut(q) == IF hist[1].op % 16 = 6 THEN q % 2 ELSE (q \div 128) % 2
Shifted(q) == IF hist[1].op % 16 = 6 THEN q \div 2 ELSE (q * 2) % 256

\* C12 as stated: for X in 0..15, after 8XY6 VF is p mod 2 and Vx is
\* p >> 1; after 8XYE VF is bit 7 of p and Vx is (p << 1) mod 256.
C12_ShiftAnyRegister ==
  ShiftStepped =>
    /\ v[FlagReg] = ShiftedOut(ShiftPre)
    /\ v[FieldX(hist[1].op)] = Shifted(ShiftPre)

\* C12 amended: that holds for X in 0..14; with X = 15 the flag is stored
\* first and then shifted itself, so VF is 0 after 8XY6 and twice bit 7 of
\* p after 8XYE.
C12_Shift ==
  ShiftStepped =>
    IF FieldX(hist[1].op) # FlagReg
    THEN /\ v[FlagReg] = ShiftedOut(ShiftPre)
         /\ v[FieldX(hist[1].op)] = Shifted(ShiftPre)
    ELSE v[FlagReg] = Shifted(ShiftedOut(ShiftPre))

\* a left shift of a value with bits 7 and 0 set, in a register other than VF
C12_Witness ==
  /\ ShiftStepped
  /\ hist[1].op % 16 = 14
  /\ FieldX(hist[1].op) # FlagReg
  /\ ShiftPre = 255
  /\ v[FlagReg] = 1
  /\ v[FieldX(hist[1].op)] = 254

\* the last step was 7XKK
AddImmStepped == Returned /\ Family(hist[1].op) = 7

\* r + k for the value r of Vx before the last step and the immediate k
AddImmSum == hist[1].pre.v[FieldX(hist[1].op)] + (hist[1].op % 256)

\* C13 as stated: for X in 0..15, after 7XKK Vx is (r + k) mod 256 and VF
\* is what it was before the instruction.
C13_AddImmAnyRegister ==
  AddImmStepped =>
    /\ v[FieldX(hist[1].op)] = AddImmSum % 256
    /\ v[FlagReg] = hist[1].pre.v[FlagReg]

\* C13 amended: Vx is (r + k) mod 256 for X in 0..15, and for X in 0..14
\* VF, like every register but Vx, is what it was before.
C13_AddImm ==
  AddImmStepped =>
    /\ v[FieldX(hist[1].op)] = AddImmSum % 256
    /\ \A r \in 0..(NumRegs - 1) :
         r # FieldX(hist[1].op) => v[r] = hist[1].pre.v[r]

\* an add-immediate that wraps, VF not zero and left alone
C13_Witness ==
  /\ AddImmStepped
  /\ FieldX(hist[1].op) # FlagReg
  /\ AddImmSum > 255
  /\ v[FieldX(hist[1].op)] = AddImmSum - 256
  /\ hist[1].pre.v[FlagReg] = 7
  /\ v[FlagReg] = 7

\* everything but memory as the claim describes it after reset
ResetFields ==
  /\ DOMAIN v = 0..15 /\ \A r \in 0..15 : v[r] = 0
  /\ I = 0
  /\ DOMAIN stack = 0..47 /\ \A k \in 0..47 : stack[k] = 0
  /\ SP = 0
  /\ sound_timer = 0 /\ delay_timer = 0
  /\ gfx_buffer = ZeroGfx
  /\ draw = FALSE
  /\ key = -1
  /\ PC = 512

\* ZeroGfx is 2048 zeros, and FontRam is 4096 cells, the 80 font bytes from
\* address 80 on and 0 everywhere else
ImagesRight ==
  /\ DOMAIN ZeroGfx = 0..2047 /\ \A p \in 0..2047 : ZeroGfx[p] = 0
  /\ DOMAIN FontRam = 0..4095
  /\ \A a \in 0..4095 :
       FontRam[a] = IF a \in 80..159 THEN font_set[a - 79] ELSE 0

\* memory as the claim describes it after load(bytes): the font, the bytes
\* from address 512 on, 0 elsewhere
Image(bytes) == [a \in 512..(511 + Len(bytes)) |-> bytes[a - 511]] @@ FontRam

\* the bytes fit between address 512 and the end of memory
Fits(bytes) == Len(bytes) <= 4096 - 512

\* C14: reset() from any state yields the reset state (registers, index
\* register, stack, stack pointer, timers and framebuffer 0, dirty flag
\* clear, no key, PC = 512, memory 0 but for the font); load(bytes), for
\* bytes that fit, yields that state with bytes[i] at 512 + i, whatever the
\* state before.
C14_ResetLoadDeterministic ==
  [][ /\ Reset => (ImagesRight /\ ResetFields' /\ ram' = FontRam)
      /\ ((LoadRom \/ Reload) /\ Fits(rom')) =>
           /\ ImagesRight
           /\ ResetFields'
           /\ err' = NoError
           /\ ram' = Image(rom')
           /\ \A i \in 0..(Len(rom') - 1) : ram'[512 + i] = rom'[i + 1] ]_vars

\* a machine just loaded with a program of more than one instruction
C14_Witness ==
  /\ rom # <<>>
  /\ Fits(rom)
  /\ Len(rom) > 2
  /\ hist = <<>>
  /\ ResetFields
  /\ ram = Image(rom)
  /\ ram[512] = rom[1] /\ ram[512] # 0

TimersInRange == delay_timer \in 0..255 /\ sound_timer \in 0..255

\* this transition is a step of FX15 (FX18): it sets the delay (sound) timer
DelaySet ==
  /\ hist' # hist /\ hist' # <<>>
  /\ Family(hist'[1].op) = 15 /\ hist'[1].op % 256 = 21
SoundSet ==
  /\ hist' # hist /\ hist' # <<>>
  /\ Family(hist'[1].op) = 15 /\ hist'[1].op % 256 = 24

\* this transition is a reset or a load
Restarted == hist' = <<>> /\ delay_timer' = 0 /\ sound_timer' = 0

\* a tick takes 1 off each timer above 0 and leaves a timer at 0; a timer
\* changes only by a tick, by a reset or load, or by the instruction that
\* sets it, which leaves the other timer alone
TimerFrame ==
  /\ Tick =>
       /\ delay_timer' = IF delay_timer > 0 THEN delay_timer - 1 ELSE 0
       /\ sound_timer' = IF sound_timer > 0 THEN sound_timer - 1 ELSE 0
  /\ delay_timer' # delay_timer =>
       \/ Tick
       \/ Restarted
       \/ DelaySet /\ delay_timer' = v[FieldX(hist'[1].op)]
  /\ sound_timer' # sound_timer =>
       \/ Tick
       \/ Restarted
       \/ SoundSet /\ sound_timer' = v[FieldX(hist'[1].op)]
  /\ DelaySet => sound_timer' = sound_timer
  /\ SoundSet => delay_timer' = delay_timer

\* C15: both timers are always in 0..255 (so never negative); a tick
\* decrements each timer above 0 by exactly 1 and leaves a timer at 0; and
\* setting or ticking one timer does not change the other beyond its own
\* decrement.
C15_TimersClampedIndependent == []TimersInRange /\ [][TimerFrame]_vars

\* the timers set to 2 and 1, and one tick: each went down by 1
C15_Witness ==
  /\ hist # <<>>
  /\ hist[1].op = FX(2, 24)
  /\ v[1] = 2 /\ v[2] = 1
  /\ delay_timer = 1
  /\ sound_timer = 0

\* three steps have been made since the load of Scenario: the step before
\* the last fetched the second instruction
ScenarioStepped ==
  /\ rom = Scenario
  /\ Len(hist) = 2
  /\ waiting = -1
  /\ hist[2].pc = 514

\* C16: after load of [0x60, 0x05, 0x61, 0x03, 0x80, 0x14] and exactly
\* three steps, V0 = 8, V1 = 3, VF = 0 and PC = 518, and the stack, the
\* index register, the timers and the framebuffer are as reset left them.
C16_ScenarioAdds ==
  ScenarioStepped =>
    /\ err = NoError
    /\ hist[1].pc = 516
    /\ v[0] = 8 /\ v[1] = 3 /\ v[15] = 0
    /\ PC = 518
    /\ \A k \in 0..47 : stack[k] = 0
    /\ SP = 0
    /\ I = 0
    /\ delay_timer = 0 /\ sound_timer = 0
    /\ \A p \in 0..2047 : gfx_buffer[p] = 0

\* the third step of the scenario has returned
C16_Witness ==
  /\ ScenarioStepped
  /\ hist[1].op = 32788
  /\ v[0] = 8
  /\ PC = 518

\* the last thing run did in the current iteration
LastWas(e) == log # <<>> /\ log[Len(log)] = e

\* C17: a step that changed the framebuffer has set the dirty flag (draw)
\* when it returns; so when an iteration of run has ended, the framebuffer
\* is the one last presented and the dirty flag is clear.
C17_ChangeMarksDirty ==
  /\ (LastWas("step") /\ waiting = -1 /\ hist[1].gfx_old # {}) => draw
  /\ LastWas("tick") => (gfx_buffer = screen /\ ~draw)

\* C18: the framebuffer always has exactly 2048 cells, each 0 or 1, and
\* every cell index a draw computes, (Vy + row) * 64 + ((Vx + col) mod 64),
\* lies in 0..2047.
C18_FramebufferIndicesInRange ==
  /\ DOMAIN gfx_buffer = 0..2047
  /\ \A p \in 0..2047 : gfx_buffer[p] \in {0, 1}
  /\ hist # <<>> => \A p \in hist[1].located : p \in 0..2047

\* how often e is in the sequence l
Count(l, e) == Cardinality({k \in 1..Len(l) : l[k] = e})

\* what an iteration of run has done so far is the beginning of: one key
\* refresh, ten steps (inside a step, the polls of an FX0A), at most one
\* presentation, one tick; presentation and tick come after the tenth step
IterationShape ==
  /\ log # <<>> => log[1] = "key"
  /\ Count(log, "step") <= 10
  /\ \A k \in 1..Len(log) :
       /\ log[k] = "key" => k = 1
       /\ log[k] = "poll" => k > 1 /\ log[k - 1] = "step"
       /\ log[k] \in {"render", "tick"} =>
            Count(SubSeq(log, 1, k - 1), "step") = 10
       /\ log[k] = "render" => Count(SubSeq(log, 1, k - 1), "render") = 0
       /\ log[k] = "tick" => k = Len(log)

\* the ten steps of the batch have returned
BatchDone ==
  /\ Count(log, "step") = 10
  /\ \/ LastWas("step") \/ LastWas("poll")
  /\ Running

\* After the batch the framebuffer is presented iff draw is set, before
\* the tick; the screen changes only by a presentation, the timers change
\* outside a step only by the tick, which decrements both; an iteration
\* begins only when the one before has ticked.
RunOrder ==
  /\ BatchDone =>
       IF draw
       THEN /\ log' = Append(log, "render")
            /\ screen' = gfx_buffer
            /\ ~draw'
       ELSE /\ log' \in {log, Append(log, "tick")}
            /\ screen' = screen
  /\ screen' # screen => log' = Append(log, "render")
  /\ (hist' = hist /\ <<delay_timer, sound_timer>>' # <<delay_timer, sound_timer>>)
       => log' = Append(log, "tick")
  /\ log' = Append(log, "tick") =>
       /\ delay_timer' = IF delay_timer > 0 THEN delay_timer - 1 ELSE 0
       /\ sound_timer' = IF sound_timer > 0 THEN sound_timer - 1 ELSE 0
       /\ gfx_buffer' = gfx_buffer /\ hist' = hist
  /\ (log' = <<"key">> /\ log # <<"key">>) => (log = <<>> \/ LastWas("tick"))

Pending == waiting # -1

\* a step is pending only when it fetched FX0A with no key recorded
OnlyAwaitKeyPends ==
  Pending =>
    /\ hist # <<>>
    /\ Family(hist[1].op) = 15 /\ hist[1].op % 256 = 10
    /\ waiting = FieldX(hist[1].op)
    /\ hist[1].pre.key = -1
    /\ key = -1

\* a transition out of a state where FX0A is pending: a poll that found no
\* key changes nothing, a poll that found a key stores it in Vx and ends
\* the step; everything else stays as it is
PendingStep ==
  /\ UNCHANGED <<I, PC, stack, SP, ram, sound_timer, delay_timer, gfx_buffer,
                 draw, err, rom, hist, screen, run_at, i_run>>
  /\ \/ key' = -1 /\ waiting' = waiting /\ v' = v
     \/ key' \in 0..15 /\ waiting' = -1 /\ v' = [v EXCEPT ![waiting] = key']

\* C20: while FX0A is pending and no key has been observed nothing but the
\* key state changes; it completes at the first poll that returns a key
\* 0..15; if the input source eventually reports a key the step returns;
\* and no step of another instruction is ever left pending.
C20_AwaitKeyCompletes ==
  /\ []OnlyAwaitKeyPends
  /\ [][Pending => PendingStep]_vars
  /\ Pending ~> ~Pending

\* an FX0A fetched with no key recorded has completed at a poll that
\* returned a key
C20_Witness ==
  /\ LastWas("poll")
  /\ ~Pending
  /\ hist[1].op = FX(0, 10)
  /\ hist[1].pre.key = -1
  /\ key \in 0..15
  /\ v[0] = key

\* ------------------------------------------------------------------- C21

\* v is a list of sixteen values in 0..255
RegistersInRange == v \in [0..(NumRegs - 1) -> Byte]

\* ram is a list of 4096 values in 0..255
RamInRange == ram \in [0..(RamSize - 1) -> Byte]

\* C21: in every state reached from a load of bytes in 0..255 by steps,
\* timer ticks and key refreshes (key in -1..15), each of the sixteen
\* registers V0..VF holds a value in 0..255 and every cell of ram holds a
\* value in 0..255.
C21_RegistersAndRamAreBytes == RegistersInRange /\ RamInRange

\* 255 + 255 has wrapped to 254 with the carry set, V0 and V1 have been
\* stored at 768, the digits 2, 5, 5 of V1 written there and read back
C21_Witness ==
  /\ Stepped
  /\ rom \in RomsStore
  /\ hist[1].op = FX(2, 101)
  /\ hist[1].pre.v[0] = 254
  /\ hist[1].pre.v[1] = 255
  /\ hist[1].pre.v[FlagReg] = 1
  /\ v[0] = 2 /\ v[1] = 5 /\ v[2] = 5
  /\ ram[768] = 2 /\ ram[769] = 5 /\ ram[770] = 5

=============================================================================
